---- MODULE Spec2Model ----
(***************************************************************************)
(* pytest-split, src/pytest_split/algorithms.py: the duration estimator,   *)
(* the grouper (group_tests) and the two partitioners (least_duration,     *)
(* duration_based_chunks).                                                 *)
(*                                                                         *)
(* Numbers.  Durations are Python floats; the model computes with exact    *)
(* rationals held as integers: a duration is a whole number of ticks, one  *)
(* tick being 1/Unit second, where Unit is the least common multiple of    *)
(* 1..MaxItems, so that sum/len of the estimator is exact.  The quotient   *)
(* total/splits of duration_based_chunks is kept as the pair               *)
(* <<total, splits>> and compared by cross-multiplication.  Floating-point *)
(* rounding is not modelled.                                               *)
(*                                                                         *)
(* Indices.  Bucket and heap positions keep Python's 0-based values; a     *)
(* TLA+ sequence s holds Python's s[i] at s[i + 1].                        *)
(***************************************************************************)
EXTENDS Integers, Sequences, FiniteSets, TLC

\* ------------------------------------------------------------------ bounds
MaxItems == 3
MaxGroups == 4
MaxSplits == 3

\* ------------------------------------------------------------ input spaces
Sep == "::"

\* node ids as token sequences; the last one has two separators (a test
\* method of a class), which per-file grouping cannot unpack
GoodIds == { <<"a", Sep, "t1">>, <<"b", Sep, "t1">>, <<"a", Sep, "t2">> }
ClassId == <<"b", Sep, "K", Sep, "t1">>
NodeIds == GoodIds \cup {ClassId}
\* an id of an earlier run that no current item has
StaleId == <<"z", Sep, "t9">>

RECURSIVE Gcd(_, _)
Gcd(a, b) == IF b = 0 THEN a ELSE Gcd(b, a % b)

RECURSIVE LcmUpTo(_)
LcmUpTo(n) == IF n <= 1 THEN 1 ELSE LET l == LcmUpTo(n - 1) IN (l * n) \div Gcd(l, n)

\* ticks per second
Unit == LcmUpTo(MaxItems)

\* recorded durations, in seconds
RecordedSeconds == {0, 3}
\* group durations handed directly to a partitioner, in ticks (the core does
\* not validate them, so a negative one is among them)
GroupDurations == {-1, 0, 1, 2, 5}
\* split counts a caller may pass (the functions do not validate them)
SplitCounts == -1 .. MaxSplits

GroupTypes == {"test", "file"}

\* ------------------------------------------------------------ list helpers
Range(n) == 0 .. (n - 1)

RECURSIVE SumSeq(_)
SumSeq(s) == IF s = <<>> THEN 0 ELSE Head(s) + SumSeq(Tail(s))

RECURSIVE SumValues(_)
SumValues(f) ==
    IF DOMAIN f = {} THEN 0
    ELSE LET k == CHOOSE x \in DOMAIN f : TRUE
         IN f[k] + SumValues([y \in DOMAIN f \ {k} |-> f[y]])

Reverse(s) == [i \in 1 .. Len(s) |-> s[Len(s) + 1 - i]]

SeqToSet(s) == { s[i] : i \in 1 .. Len(s) }

\* ---------------------------------------------------------------- _flatten
RECURSIVE _flatten(_)
_flatten(test_groups) ==
    IF test_groups = <<>> THEN <<>>
    ELSE Head(test_groups).tests \o _flatten(Tail(test_groups))

\* ------------------------------------------------------------------ sorted
\* list.sort is stable: an element goes after every element whose key is
\* not greater than its own.  pairs are <<key, element>>.
RECURSIVE InsertStable(_, _)
InsertStable(done, pair) ==
    IF done = <<>> THEN <<pair>>
    ELSE IF pair[1] < Head(done)[1] THEN <<pair>> \o done
    ELSE <<Head(done)>> \o InsertStable(Tail(done), pair)

RECURSIVE StableSortAsc(_)
StableSortAsc(pairs) ==
    IF pairs = <<>> THEN <<>>
    ELSE InsertStable(StableSortAsc(SubSeq(pairs, 1, Len(pairs) - 1)), pairs[Len(pairs)])

\* descending order got by reversing an ascending sort: equal keys come out
\* in reverse original order
sorted_ReversedTies(pairs, reverse) ==
    LET out == IF reverse THEN Reverse(StableSortAsc(pairs)) ELSE StableSortAsc(pairs)
    IN [i \in 1 .. Len(out) |-> out[i][2]]

\* sorted(..., key=..., reverse=...): with reverse the list is reversed,
\* sorted ascending and reversed again, which keeps equal keys in their
\* original order
sorted(pairs, reverse) ==
    LET out == IF reverse THEN Reverse(StableSortAsc(Reverse(pairs)))
               ELSE StableSortAsc(pairs)
    IN [i \in 1 .. Len(out) |-> out[i][2]]

\* ------------------------------------------------------------------- heapq
\* the tuple compared by group index first
TupleLt_IndexFirst(a, b) == a[2] < b[2] \/ (a[2] = b[2] /\ a[1] < b[1])

\* Python's tuple comparison on (summed_durations, group_index)
TupleLt(a, b) == a[1] < b[1] \/ (a[1] = b[1] /\ a[2] < b[2])

RECURSIVE SiftdownLoop(_, _, _, _)
SiftdownLoop(heap, startpos, pos, newitem) ==
    IF pos > startpos
    THEN LET parentpos == (pos - 1) \div 2
             parent == heap[parentpos + 1]
         IN IF TupleLt(newitem, parent)
            THEN SiftdownLoop([heap EXCEPT ![pos + 1] = parent], startpos, parentpos, newitem)
            ELSE [heap EXCEPT ![pos + 1] = newitem]
    ELSE [heap EXCEPT ![pos + 1] = newitem]

_siftdown(heap, startpos, pos) == SiftdownLoop(heap, startpos, pos, heap[pos + 1])

RECURSIVE SiftupLoop(_, _, _, _)
SiftupLoop(heap, startpos, pos, newitem) ==
    LET endpos == Len(heap)
        childpos == 2 * pos + 1
    IN IF childpos < endpos
       THEN LET rightpos == childpos + 1
                c == IF rightpos < endpos /\ ~TupleLt(heap[childpos + 1], heap[rightpos + 1])
                     THEN rightpos ELSE childpos
            IN SiftupLoop([heap EXCEPT ![pos + 1] = heap[c + 1]], startpos, c, newitem)
       ELSE _siftdown([heap EXCEPT ![pos + 1] = newitem], startpos, pos)

_siftup(heap, pos) == SiftupLoop(heap, pos, pos, heap[pos + 1])

RECURSIVE HeapifyLoop(_, _)
HeapifyLoop(x, i) == IF i < 0 THEN x ELSE HeapifyLoop(_siftup(x, i), i - 1)

heapify(x) == HeapifyLoop(x, (Len(x) \div 2) - 1)

\* heappop of a non-empty heap: <<returned item, heap afterwards>>
heappop(heap) ==
    LET lastelt == heap[Len(heap)]
        rest == SubSeq(heap, 1, Len(heap) - 1)
    IN IF rest # <<>>
       THEN <<rest[1], _siftup([rest EXCEPT ![1] = lastelt], 0)>>
       ELSE <<lastelt, rest>>

heappush(heap, item) == _siftdown(Append(heap, item), 0, Len(heap))

\* ---------------------------------------------------- duration estimator
\* no filtering: stale ids stay in the record
_remove_irrelevant_durations_KeepsAll(its, durs) == durs

_remove_irrelevant_durations(its, durs) ==
    LET test_ids == its
    IN [name \in SeqToSet(test_ids) \cap DOMAIN durs |-> durs[name]]

_get_avg_duration_per_test(durs) ==
    IF DOMAIN durs # {}
    THEN SumValues(durs) \div Cardinality(DOMAIN durs)
    ELSE 1 * Unit

\* dict.get(key, default)
DictGet(d, key, default) == IF key \in DOMAIN d THEN d[key] ELSE default

\* pairs <<item, duration>>; an item is identified by its nodeid
_get_items_with_durations(its, durs) ==
    LET relevant == _remove_irrelevant_durations(its, durs)
        avg_duration_per_test == _get_avg_duration_per_test(relevant)
    IN [i \in 1 .. Len(its) |-> <<its[i], DictGet(relevant, its[i], avg_duration_per_test)>>]

\* ------------------------------------------------------------- group_tests
\* str.split('::') on the token sequence: the list of parts between
\* separators
RECURSIVE SplitLoop(_, _, _, _)
SplitLoop(s, i, cur, parts) ==
    IF i > Len(s) THEN Append(parts, cur)
    ELSE IF s[i] = Sep THEN SplitLoop(s, i + 1, <<>>, Append(parts, cur))
    ELSE SplitLoop(s, i + 1, Append(cur, s[i]), parts)

split(nodeid) == SplitLoop(nodeid, 1, <<>>, <<>>)

\* "file, _ = ..." unpacks exactly two parts and raises ValueError otherwise
Unpacks(nodeid) == Len(split(nodeid)) = 2

\* the two defaultdicts share their keys; keys holds them in insertion order
\* defaultdict(list)[file].append(item)
ItemsByFileAdd(d, file, item) ==
    IF file \in DOMAIN d
    THEN [d EXCEPT ![file] = Append(@, item)]
    ELSE [f \in DOMAIN d \cup {file} |-> IF f = file THEN <<item>> ELSE d[f]]

\* "=" in place of "+="
DurationsByFileAdd_Overwrites(d, file, dur) ==
    [f \in DOMAIN d \cup {file} |-> IF f = file THEN dur ELSE d[f]]

\* defaultdict(int)[file] += duration
DurationsByFileAdd(d, file, dur) ==
    IF file \in DOMAIN d
    THEN [d EXCEPT ![file] = @ + dur]
    ELSE [f \in DOMAIN d \cup {file} |-> IF f = file THEN 0 + dur ELSE d[f]]

KeysAdd(keys, file) == IF file \in SeqToSet(keys) THEN keys ELSE Append(keys, file)

EmptyDict == [f \in {} |-> 0]

\* the loop of lines 125-128 from pair i on (every nodeid unpacks)
RECURSIVE ByFileLoop(_, _, _, _, _)
ByFileLoop(iwd, i, keys, items_by_file, durations_by_file) ==
    IF i > Len(iwd)
    THEN [j \in 1 .. Len(keys) |->
              [tests |-> items_by_file[keys[j]], duration |-> durations_by_file[keys[j]]]]
    ELSE LET item == iwd[i][1]
             dur == iwd[i][2]
             file == split(item)[1]
         IN ByFileLoop(iwd, i + 1, KeysAdd(keys, file),
                       ItemsByFileAdd(items_by_file, file, item),
                       DurationsByFileAdd(durations_by_file, file, dur))

GroupsPerTest(iwd) == [i \in 1 .. Len(iwd) |-> [tests |-> <<iwd[i][1]>>, duration |-> iwd[i][2]]]

GroupsPerFile(iwd) == ByFileLoop(iwd, 1, <<>>, EmptyDict, EmptyDict)

\* --------------------------------------------------- partitioner helpers
\* [x for i in range(n)]
ListOf(n, x) == IF n <= 0 THEN <<>> ELSE [i \in 1 .. n |-> x]

\* the group is appended for every bucket, the selecting one included
MarkDeselected_EveryBucket(desel, gidx, group) ==
    [i \in 1 .. Len(desel) |-> Append(desel[i], group)]

\* "for i in range(splits): if i != group_idx: deselected[i].append(group)"
\* (lines 63-65, and the same loop at lines 108-110)
MarkDeselected(desel, gidx, group) ==
    [i \in 1 .. Len(desel) |-> IF i - 1 # gidx THEN Append(desel[i], group) ELSE desel[i]]

\* sorted(enumerate(input_test_groups), key=duration, reverse=True):
\* elements are <<original_index, group>>
SortedItemsWithDurations(gs) ==
    sorted([i \in 1 .. Len(gs) |-> <<gs[i].duration, <<i - 1, gs[i]>>>>], TRUE)

\* the bucket's sum is overwritten instead of added to
NewGroupDurations_Overwrites(summed_durations, group) == group.duration

\* summed_durations + input_test_group.duration
NewGroupDurations(summed_durations, group) == summed_durations + group.duration

\* the groups of bucket i in original order: sorted(selected[i], key=tup[1])
\* with the index dropped; the tuples are <<group, original_index>>
SelectedInOrder(sel) ==
    LET s == sorted([j \in 1 .. Len(sel) |-> <<sel[j][2], sel[j]>>], FALSE)
    IN [j \in 1 .. Len(s) |-> s[j][1]]

OutputTestGroup(sel, desel, dur) == [selected |-> sel, deselected |-> desel, duration |-> dur]

\* sum(...) / splits, kept as the fraction <<numerator, denominator>>
TimePerGroup(gs, n) == <<SumSeq([i \in 1 .. Len(gs) |-> gs[i].duration]), n>>

\* d >= q for a fraction q = <<num, den>>, den # 0
GeqFraction(d, q) == IF q[2] > 0 THEN d * q[2] >= q[1] ELSE d * q[2] <= q[1]

\* the pointer wraps around to bucket 0 after the last bucket
NextGroupIdx_Wraps(dur, gidx, tpg) ==
    IF GeqFraction(dur[gidx + 1], tpg) THEN (gidx + 1) % Len(dur) ELSE gidx

\* "if duration[group_idx] >= time_per_group: group_idx += 1" (lines 104-105)
NextGroupIdx(dur, gidx, tpg) == IF GeqFraction(dur[gidx + 1], tpg) THEN gidx + 1 ELSE gidx

\* "duration[group_idx] += group.duration" (line 111)
AddDuration(dur, gidx, group) == [dur EXCEPT ![gidx + 1] = @ + group.duration]

\* ------------------------------------------------------------------- state
VARIABLES
    pc,                           \* where the run stands
    items, durations, group_type, \* arguments of group_tests
    items_with_durations,         \* local of group_tests
    input_test_groups,            \* result of group_tests, argument of a partitioner
    algorithm, splits,            \* the partitioner called and its split count
    sorted_items_with_durations,  \* locals of the partitioners
    selected, deselected, duration, heap, time_per_group, group_idx,
    pos,                          \* number of groups the partitioner loop has taken
    result,                       \* the returned list of OutputTestGroup
    error                         \* the exception raised, "" when none

vars == <<pc, items, durations, group_type, items_with_durations, input_test_groups,
          algorithm, splits, sorted_items_with_durations, selected, deselected,
          duration, heap, time_per_group, group_idx, pos, result, error>>

locals == <<sorted_items_with_durations, selected, deselected, duration, heap,
            time_per_group, group_idx, pos>>

\* sequences without repetition of at most n elements of S
RECURSIVE DistinctSeqs(_, _)
DistinctSeqs(S, n) ==
    IF n = 0 THEN {<<>>}
    ELSE LET shorter == DistinctSeqs(S, n - 1)
         IN shorter \cup UNION { { Append(s, x) : x \in S \ SeqToSet(s) } : s \in shorter }

\* duration records: some of the known ids and possibly a stale one
DurationRecords ==
    UNION { [K -> { s * Unit : s \in RecordedSeconds }] : K \in SUBSET (GoodIds \cup {StaleId}) }

NotCalled ==
    /\ algorithm = "none"
    /\ splits = 0
    /\ sorted_items_with_durations = <<>>
    /\ selected = <<>>
    /\ deselected = <<>>
    /\ duration = <<>>
    /\ heap = <<>>
    /\ time_per_group = <<0, 1>>
    /\ group_idx = 0
    /\ pos = 0
    /\ result = <<>>
    /\ error = ""

\* a run of the whole core: group_tests, then one partitioner
Init ==
    /\ pc = "start"
    /\ items \in DistinctSeqs(NodeIds, MaxItems)
    /\ durations \in DurationRecords
    /\ group_type \in GroupTypes
    /\ items_with_durations = <<>>
    /\ input_test_groups = <<>>
    /\ NotCalled

\* the tests of the k-th group handed directly to a partitioner: every
\* second group has two tests
TestsOf(k) ==
    LET file == "f" \o ToString(k)
    IN IF k % 2 = 0 THEN << <<file, Sep, "t1">>, <<file, Sep, "t2">> >>
       ELSE << <<file, Sep, "t1">> >>

GroupLists ==
    UNION { { [k \in 1 .. n |-> [tests |-> TestsOf(k), duration |-> d[k]]] :
                d \in [1 .. n -> GroupDurations] } : n \in 0 .. MaxGroups }

\* a partitioner called directly on a list of groups
InitGroups ==
    /\ pc = "grouped"
    /\ items = <<>>
    /\ durations = EmptyDict
    /\ group_type = "none"
    /\ items_with_durations = <<>>
    /\ input_test_groups \in GroupLists
    /\ NotCalled

\* ----------------------------------------------------------------- actions
GroupTests ==
    /\ pc = "start"
    /\ items_with_durations' = _get_items_with_durations(items, durations)
    /\ IF group_type = "test"
       THEN /\ input_test_groups' = GroupsPerTest(items_with_durations')
            /\ pc' = "grouped"
            /\ error' = error
       ELSE IF \A i \in 1 .. Len(items) : Unpacks(items[i])
       THEN /\ input_test_groups' = GroupsPerFile(items_with_durations')
            /\ pc' = "grouped"
            /\ error' = error
       ELSE /\ input_test_groups' = input_test_groups
            /\ pc' = "error"
            /\ error' = "ValueError"
    /\ UNCHANGED <<items, durations, group_type, algorithm, splits, locals, result>>

LeastDurationCall ==
    /\ pc = "grouped"
    /\ \E n \in SplitCounts :
        /\ splits' = n
        /\ selected' = ListOf(n, <<>>)
        /\ deselected' = ListOf(n, <<>>)
        /\ duration' = ListOf(n, 0)
        /\ heap' = heapify([i \in 1 .. Len(ListOf(n, 0)) |-> <<0, i - 1>>])
    /\ algorithm' = "least_duration"
    /\ sorted_items_with_durations' = SortedItemsWithDurations(input_test_groups)
    /\ pc' = "ld_loop"
    /\ UNCHANGED <<items, durations, group_type, items_with_durations, input_test_groups,
                   time_per_group, group_idx, pos, result, error>>

LeastDurationStep ==
    /\ pc = "ld_loop"
    /\ pos < Len(sorted_items_with_durations)
    /\ IF heap = <<>>
       THEN \* heappop of an empty heap
            /\ pc' = "error"
            /\ error' = "IndexError"
            /\ UNCHANGED <<selected, deselected, duration, heap, group_idx, pos>>
       ELSE LET original_index == sorted_items_with_durations[pos + 1][1]
                input_test_group == sorted_items_with_durations[pos + 1][2]
                popped == heappop(heap)
                summed_durations == popped[1][1]
                gidx == popped[1][2]
                new_group_durations == NewGroupDurations(summed_durations, input_test_group)
            IN /\ group_idx' = gidx
               /\ selected' = [selected EXCEPT ![gidx + 1] =
                                    Append(@, <<input_test_group, original_index>>)]
               /\ duration' = [duration EXCEPT ![gidx + 1] = new_group_durations]
               /\ deselected' = MarkDeselected(deselected, gidx, input_test_group)
               /\ heap' = heappush(popped[2], <<new_group_durations, gidx>>)
               /\ pos' = pos + 1
               /\ UNCHANGED <<pc, error>>
    /\ UNCHANGED <<items, durations, group_type, items_with_durations, input_test_groups,
                   algorithm, splits, sorted_items_with_durations, time_per_group, result>>

LeastDurationReturn ==
    /\ pc = "ld_loop"
    /\ pos = Len(sorted_items_with_durations)
    /\ result' = [i \in 1 .. Len(ListOf(splits, 0)) |->
                      OutputTestGroup(_flatten(SelectedInOrder(selected[i])),
                                      _flatten(deselected[i]), duration[i])]
    /\ pc' = "done"
    /\ UNCHANGED <<items, durations, group_type, items_with_durations, input_test_groups,
                   algorithm, splits, locals, error>>

DurationBasedChunksCall ==
    /\ pc = "grouped"
    /\ algorithm' = "duration_based_chunks"
    /\ \E n \in SplitCounts :
        /\ splits' = n
        /\ IF n = 0
           THEN \* sum(...) / 0
                /\ pc' = "error"
                /\ error' = "ZeroDivisionError"
                /\ UNCHANGED <<time_per_group, selected, deselected, duration>>
           ELSE /\ time_per_group' = TimePerGroup(input_test_groups, n)
                /\ selected' = ListOf(n, <<>>)
                /\ deselected' = ListOf(n, <<>>)
                /\ duration' = ListOf(n, 0)
                /\ pc' = "dbc_loop"
                /\ error' = error
    /\ UNCHANGED <<items, durations, group_type, items_with_durations, input_test_groups,
                   sorted_items_with_durations, heap, group_idx, pos, result>>

DurationBasedChunksStep ==
    /\ pc = "dbc_loop"
    /\ pos < Len(input_test_groups)
    /\ LET group == input_test_groups[pos + 1]
       IN IF group_idx \notin Range(Len(duration))
          THEN \* duration[group_idx] at line 104
               /\ pc' = "error"
               /\ error' = "IndexError"
               /\ UNCHANGED <<selected, deselected, duration, group_idx, pos>>
          ELSE LET gidx == NextGroupIdx(duration, group_idx, time_per_group)
               IN /\ group_idx' = gidx
                  /\ IF gidx \notin Range(Len(selected))
                     THEN \* selected[group_idx] at line 107
                          /\ pc' = "error"
                          /\ error' = "IndexError"
                          /\ UNCHANGED <<selected, deselected, duration, pos>>
                     ELSE /\ selected' = [selected EXCEPT ![gidx + 1] = Append(@, group)]
                          /\ deselected' = MarkDeselected(deselected, gidx, group)
                          /\ duration' = AddDuration(duration, gidx, group)
                          /\ pos' = pos + 1
                          /\ UNCHANGED <<pc, error>>
    /\ UNCHANGED <<items, durations, group_type, items_with_durations, input_test_groups,
                   algorithm, splits, sorted_items_with_durations, heap, time_per_group,
                   result>>

DurationBasedChunksReturn ==
    /\ pc = "dbc_loop"
    /\ pos = Len(input_test_groups)
    /\ result' = [i \in 1 .. Len(ListOf(splits, 0)) |->
                      OutputTestGroup(_flatten(selected[i]), _flatten(deselected[i]),
                                      duration[i])]
    /\ pc' = "done"
    /\ UNCHANGED <<items, durations, group_type, items_with_durations, input_test_groups,
                   algorithm, splits, locals, error>>

NextPartition ==
    \/ LeastDurationCall
    \/ LeastDurationStep
    \/ LeastDurationReturn
    \/ DurationBasedChunksCall
    \/ DurationBasedChunksStep
    \/ DurationBasedChunksReturn

Next ==
    \/ GroupTests
    \/ NextPartition

\* group_tests followed by a partitioner
Spec == Init /\ [][Next]_vars

\* group_tests alone
SpecGroupTests == Init /\ [][GroupTests]_vars

\* a partitioner on any list of groups
SpecGroups == InitGroups /\ [][NextPartition]_vars

\* ================================================================ properties
\* vocabulary of the properties, defined without the operators above

Returned == pc = "done"

\* number of positions of s holding x
Occurrences(x, s) == Cardinality({ j \in 1 .. Len(s) : s[j] = x })

InputItemSet == UNION { SeqToSet(input_test_groups[k].tests) : k \in 1 .. Len(input_test_groups) }

Buckets == 1 .. splits

\* position of x in s (x occurs once)
IndexIn(x, s) == CHOOSE j \in 1 .. Len(s) : s[j] = x

\* the items of s keep the relative order they have in whole
InOrderOf(s, whole) ==
    \A j, k \in 1 .. Len(s) : j < k => IndexIn(s[j], whole) < IndexIn(s[k], whole)

RECURSIVE SumOver(_, _)
SumOver(S, f) ==
    IF S = {} THEN 0
    ELSE LET x == CHOOSE y \in S : TRUE IN f[x] + SumOver(S \ {x}, f)

NonNegativeInput == \A k \in 1 .. Len(input_test_groups) : input_test_groups[k].duration >= 0

\* ---------------------------------------------------------------------- C1
\* C1: when either strategy returns its N >= 1 output groups, every input
\* item occurs exactly once in all the selected lists together, and each
\* deselected[i], as a set, is the full item set minus selected[i].
C1_SelectedPartitionsItems ==
    (Returned /\ splits >= 1) =>
        /\ Len(result) = splits
        /\ \A x \in InputItemSet :
              SumOver(Buckets, [i \in Buckets |-> Occurrences(x, result[i].selected)]) = 1
        /\ \A i \in Buckets :
              /\ SeqToSet(result[i].selected) \subseteq InputItemSet
              /\ SeqToSet(result[i].deselected) = InputItemSet \ SeqToSet(result[i].selected)

C1_Witness ==
    /\ Returned
    /\ algorithm = "duration_based_chunks"
    /\ splits = 3
    /\ Len(input_test_groups) = 4
    /\ \A i \in Buckets : result[i].selected # <<>>

\* ---------------------------------------------------------------------- C2
\* C2: in every selected[i] returned by either strategy the items keep the
\* relative order of the item sequence handed to group_tests, in both
\* grouping modes.
C2_SelectedKeepsItemOrder ==
    (Returned /\ splits >= 1) =>
        \A i \in Buckets : InOrderOf(result[i].selected, items)

\* ---------------------------------------------------------------------- C3
\* C3: a call of either strategy with a split count N <= 0 is rejected; it
\* never returns a list of output groups.
C3_NonPositiveSplitsRejected ==
    (algorithm # "none" /\ splits <= 0) => ~Returned

\* ---------------------------------------------------------------------- C4
RECURSIVE ConcatSelected(_, _)
ConcatSelected(res, i) ==
    IF i > Len(res) THEN <<>> ELSE res[i].selected \o ConcatSelected(res, i + 1)

RECURSIVE AllTests(_, _)
AllTests(gs, k) == IF k = 0 THEN <<>> ELSE AllTests(gs, k - 1) \o gs[k].tests

IsRunOf(s, whole) ==
    \E a \in 1 .. Len(whole) + 1 : \E b \in 0 .. Len(whole) : s = SubSeq(whole, a, b)

\* C4: when duration_based_chunks returns (N >= 1), every selected[i] is one
\* contiguous run of the input order, the buckets after the one the pointer
\* ended on are empty, and selected[0] ... selected[N-1] concatenated are
\* the flattened input.
C4_ChunksAreContiguous ==
    (Returned /\ algorithm = "duration_based_chunks" /\ splits >= 1) =>
        LET whole == AllTests(input_test_groups, Len(input_test_groups))
        IN /\ \A i \in Buckets : IsRunOf(result[i].selected, whole)
           /\ \A i \in Buckets : i - 1 > group_idx => result[i].selected = <<>>
           /\ ConcatSelected(result, 1) = whole

C4_Witness ==
    /\ Returned
    /\ algorithm = "duration_based_chunks"
    /\ splits = 3
    /\ Len(input_test_groups) = 4
    /\ group_idx = 1
    /\ Len(result[1].selected) >= 2
    /\ Len(result[2].selected) >= 2
    /\ result[3].selected = <<>>

\* ---------------------------------------------------------------------- C5
\* the input groups whose tests bucket i selected
AssignedTo(i) ==
    { k \in 1 .. Len(input_test_groups) :
          input_test_groups[k].tests[1] \in SeqToSet(result[i].selected) }

InputDuration == [k \in 1 .. Len(input_test_groups) |-> input_test_groups[k].duration]

\* C5: when either strategy returns (N >= 1), the duration of each output
\* group is the sum of the durations of the input groups it selected, and
\* the N output durations add up to the total input duration.
C5_DurationsConserved ==
    (Returned /\ splits >= 1) =>
        /\ \A i \in Buckets : result[i].duration = SumOver(AssignedTo(i), InputDuration)
        /\ SumOver(Buckets, [i \in Buckets |-> result[i].duration])
              = SumOver(DOMAIN InputDuration, InputDuration)

C5_Witness ==
    /\ Returned
    /\ algorithm = "least_duration"
    /\ splits = 2
    /\ Len(input_test_groups) = 4
    /\ \A i \in Buckets : Cardinality(AssignedTo(i)) = 2 /\ result[i].duration = 3

\* ---------------------------------------------------------------------- C6
\* the recorded ids that the current item list has
RelevantIds == DOMAIN durations \cap SeqToSet(items)

\* C6: the estimator returns one pair per item, in item order; an item with
\* a recorded id gets the recorded value, any other item gets the mean of
\* the recorded values of the ids of the current list (1 second when there
\* is none), whatever the record holds for ids outside the list.
C6_EstimatedDurations ==
    (pc # "start") =>
        /\ Len(items_with_durations) = Len(items)
        /\ \A i \in 1 .. Len(items) :
              /\ items_with_durations[i][1] = items[i]
              /\ IF items[i] \in DOMAIN durations
                 THEN items_with_durations[i][2] = durations[items[i]]
                 ELSE IF RelevantIds = {}
                 THEN items_with_durations[i][2] = Unit
                 ELSE items_with_durations[i][2] * Cardinality(RelevantIds)
                          = SumOver(RelevantIds, durations)

C6_Witness ==
    /\ pc = "grouped"
    /\ Len(items) = 3
    /\ Cardinality(RelevantIds) = 2
    /\ StaleId \in DOMAIN durations
    /\ durations[StaleId] = 3 * Unit
    /\ \E i \in 1 .. 3 : items[i] \notin DOMAIN durations
                           /\ 2 * items_with_durations[i][2] = 3 * Unit

\* ---------------------------------------------------------------------- C7
\* the part of an id before its first separator
FileComponent(id) == SubSeq(id, 1, (CHOOSE j \in 1 .. Len(id) : id[j] = Sep /\ \A m \in 1 .. j - 1 : id[m] # Sep) - 1)

OneSeparator(id) == Occurrences(Sep, id) = 1

FirstSeen(f) == CHOOSE j \in 1 .. Len(items) :
                    /\ FileComponent(items[j]) = f
                    /\ \A m \in 1 .. j - 1 : FileComponent(items[m]) # f

EstimateOf == [i \in 1 .. Len(items_with_durations) |-> items_with_durations[i][2]]

\* C7: per-file grouping of ids with one separator returns one group per
\* file component, in first-seen order of the files; a group's tests are the
\* items of its file in item order and its duration is the sum of their
\* estimated durations.
C7_PerFileGroups ==
    (pc = "grouped" /\ group_type = "file" /\ \A i \in 1 .. Len(items) : OneSeparator(items[i])) =>
        LET files == { FileComponent(items[i]) : i \in 1 .. Len(items) }
            gs == input_test_groups
            FileOf(k) == FileComponent(gs[k].tests[1])
        IN /\ Len(gs) = Cardinality(files)
           /\ \A k \in 1 .. Len(gs) :
                 /\ gs[k].tests # <<>>
                 /\ gs[k].tests = SelectSeq(items, LAMBDA id : FileComponent(id) = FileOf(k))
                 /\ gs[k].duration =
                       SumOver({ i \in 1 .. Len(items) : FileComponent(items[i]) = FileOf(k) },
                               EstimateOf)
           /\ \A j, k \in 1 .. Len(gs) : j < k => FirstSeen(FileOf(j)) < FirstSeen(FileOf(k))
           /\ \A x \in SeqToSet(items) :
                 Cardinality({ k \in 1 .. Len(gs) : x \in SeqToSet(gs[k].tests) }) = 1

C7_Witness ==
    /\ pc = "grouped"
    /\ group_type = "file"
    /\ items = << <<"a", Sep, "t1">>, <<"b", Sep, "t1">>, <<"a", Sep, "t2">> >>
    /\ Len(input_test_groups) = 2
    /\ Len(input_test_groups[1].tests) = 2
    /\ input_test_groups[1].duration = 3 * Unit + (3 * Unit) \div 2

\* ---------------------------------------------------------------------- C8
\* C8: in duration_based_chunks with N >= 1 and non-negative durations the
\* bucket pointer never exceeds N-1, and no bucket outside [0, N) is
\* indexed.
C8_PointerStaysInRange ==
    (algorithm = "duration_based_chunks" /\ splits >= 1 /\ NonNegativeInput) =>
        /\ group_idx <= splits - 1
        /\ error # "IndexError"

\* ---------------------------------------------------------------------- C9
\* the reference greedy: groups by duration descending, then original index
\* ascending; each to the bucket of least load, then least index
RefNextGroup(left) ==
    CHOOSE k \in left : \A m \in left \ {k} :
        \/ InputDuration[k] > InputDuration[m]
        \/ InputDuration[k] = InputDuration[m] /\ k < m

RefLeastBucket(loads) ==
    CHOOSE b \in DOMAIN loads : \A c \in DOMAIN loads \ {b} :
        \/ loads[b] < loads[c]
        \/ loads[b] = loads[c] /\ b < c

\* the state of the reference after `steps` assignments: the loads of the
\* buckets and the input groups (by 1-based position) each bucket holds
RECURSIVE RefGreedy(_, _)
RefGreedy(n, steps) ==
    IF steps = 0
    THEN [loads |-> [b \in 1 .. n |-> 0], members |-> [b \in 1 .. n |-> {}],
          left |-> DOMAIN InputDuration]
    ELSE LET prev == RefGreedy(n, steps - 1)
             k == RefNextGroup(prev.left)
             b == RefLeastBucket(prev.loads)
         IN [loads |-> [prev.loads EXCEPT ![b] = @ + InputDuration[k]],
             members |-> [prev.members EXCEPT ![b] = @ \cup {k}],
             left |-> prev.left \ {k}]

\* the tests of the input groups at the positions S, in input order
RECURSIVE TestsAt(_, _)
TestsAt(S, k) ==
    IF k > Len(input_test_groups) THEN <<>>
    ELSE (IF k \in S THEN input_test_groups[k].tests ELSE <<>>) \o TestsAt(S, k + 1)

MaxOf(f) == CHOOSE x \in { f[i] : i \in DOMAIN f } : \A i \in DOMAIN f : f[i] <= x
MinOf(f) == CHOOSE x \in { f[i] : i \in DOMAIN f } : \A i \in DOMAIN f : f[i] >= x

LargestInputDuration == IF input_test_groups = <<>> THEN 0 ELSE MaxOf(InputDuration)

\* C10: in least_duration with N >= 1 and non-negative durations, after
\* every assignment step and in the returned groups, the largest and the
\* smallest bucket duration differ by at most the largest input duration.
C10_LeastDurationBalance ==
    (algorithm = "least_duration" /\ splits >= 1 /\ NonNegativeInput
         /\ pc \in {"ld_loop", "done"}) =>
        /\ MaxOf(duration) - MinOf(duration) <= LargestInputDuration
        /\ Returned =>
              LET out == [i \in Buckets |-> result[i].duration]
              IN MaxOf(out) - MinOf(out) <= LargestInputDuration

C10_Witness ==
    /\ Returned
    /\ algorithm = "least_duration"
    /\ splits = 3
    /\ InputDuration = <<1, 2, 5, 0>>
    /\ MaxOf(duration) - MinOf(duration) = 4

====
